---- MODULE Spec2Model ----
(***************************************************************************)
(* Model of bst_inspire_authority_ids_synchronizer.py: the tasklet that    *)
(* fetches the INSPIRE HepNames dump, parses it into a CERN id ->          *)
(* INSPIRE id dictionary, joins it against the "CERN People" records of    *)
(* CDS that have no INSPIRE id yet, and submits the updates to bibupload.  *)
(***************************************************************************)
EXTENDS Integers, Sequences, FiniteSets, TLC

VARIABLES
    pc,             \* position in the tasklet
    run,            \* number of the current invocation of the tasklet
    remote,         \* what 'src' (the URL) serves
    store,          \* the CDS record store: sequence of [id, values]
    tmpFile,        \* the file at 'dest_gz_tmp' on disk
    destFile,       \* the file at 'dest_xml' on disk
    removeTried,    \* os.remove(dest_gz_tmp) was called in this get_inspire_dump
    removeFailed,   \* ... and raised OSError
    xml_content,    \* local of get_inspire_dump / argument of parse_inspire_xml
    root,           \* local of parse_inspire_xml: the parsed document element
    recIdx,         \* position of 'for record in root'
    inspire_id,     \* local of parse_inspire_xml (last record scanned)
    dump_cern_id,   \* local cern_id of parse_inspire_xml (last record scanned)
    authority_ids,  \* the dictionary built by parse_inspire_xml, or None
    record_ids,     \* result of get_record_ids()
    idx,            \* position of 'for record_id in record_ids'
    cern_id,        \* local cern_id of synchronize: result of get_ccid
    output,         \* local output of synchronize
    submitted,      \* calls of task_low_level_submission: the payload each one found
    queries,        \* number of calls of perform_request_search in this run
    log,            \* kinds of the messages written by write_message in this run
    history         \* per finished run: what the run produced

vars == <<pc, run, remote, store, tmpFile, destFile, removeTried, removeFailed,
          xml_content, root, recIdx, inspire_id, dump_cern_id, authority_ids,
          record_ids, idx, cern_id, output, submitted, queries, log, history>>

(***************************************************************************)
(* Python values                                                           *)
(***************************************************************************)
\* None, and a present value; both records of one shape so that they compare
None == [some |-> FALSE, v |-> ""]
Some(x) == [some |-> TRUE, v |-> x]

\* truth value of an 'str or None' object
Truthy(x) == x.some /\ x.v # ""

\* "{0}".format(x) of an 'str or None' object
Format(x) == IF x.some THEN x.v ELSE "None"

\* s.startswith(prefix)
StartsWith(s, prefix) ==
    Len(s) >= Len(prefix) /\ SubSeq(s, 1, Len(prefix)) = prefix

\* the third component of s.partition(sep), for an s that starts with sep
AfterPrefix(s, sep) == SubSeq(s, Len(sep) + 1, Len(s))

\* {} and d[k] = v
EmptyDict == [k \in {} |-> ""]
DictSet(d, k, v) == [x \in (DOMAIN d) \cup {k} |-> IF x = k THEN v ELSE d[x]]

(***************************************************************************)
(* Markup: the content of the dump as a sequence of tokens                 *)
(***************************************************************************)
Open(n, a) == [k |-> "open", name |-> n, attr |-> a, v |-> ""]
Close(n) == [k |-> "close", name |-> n, attr |-> "", v |-> ""]
Text(s) == [k |-> "text", name |-> "", attr |-> "", v |-> s]

Subfield(code, s) == <<Open("subfield", code), Text(s), Close("subfield")>>
EmptySubfield(code) == <<Open("subfield", code), Close("subfield")>>
Datafield(tag, subs) == <<Open("datafield", tag)>> \o subs \o <<Close("datafield")>>
Record(fields) == <<Open("record", "")>> \o fields \o <<Close("record")>>
Collection(records) == <<Open("collection", "")>> \o records \o <<Close("collection")>>

ParseFail == [ok |-> FALSE, next |-> 0]

RECURSIVE ParseElement(_, _)
RECURSIVE ParseContent(_, _, _, _)

\* one element starting at token i: its start tag, content and matching end tag
ParseElement(toks, i) ==
    IF i > Len(toks) \/ toks[i].k # "open" THEN ParseFail
    ELSE LET body == ParseContent(toks, i + 1, None, <<>>) IN
         IF ~body.ok THEN ParseFail
         ELSE IF body.next > Len(toks) THEN ParseFail
         ELSE IF toks[body.next].k # "close" \/ toks[body.next].name # toks[i].name
              THEN ParseFail
         ELSE [ok |-> TRUE, next |-> body.next + 1,
               node |-> [name |-> toks[i].name, attr |-> toks[i].attr,
                         text |-> body.text, children |-> body.children]]

\* the content of an element: .text is the text before the first child
ParseContent(toks, i, text, children) ==
    IF i > Len(toks) THEN [ok |-> TRUE, next |-> i, text |-> text, children |-> children]
    ELSE IF toks[i].k = "text"
         THEN ParseContent(toks, i + 1,
                           IF children = <<>> /\ ~text.some THEN Some(toks[i].v) ELSE text,
                           children)
    ELSE IF toks[i].k = "open"
         THEN LET e == ParseElement(toks, i) IN
              IF ~e.ok THEN ParseFail
              ELSE ParseContent(toks, e.next, text, Append(children, e.node))
    ELSE [ok |-> TRUE, next |-> i, text |-> text, children |-> children]

\* etree.fromstring(xml_content): the document element, or the exception raised
fromstring(content) ==
    IF ~content.some THEN [exc |-> "ValueError"]
    ELSE LET e == ParseElement(content.v, 1) IN
         IF e.ok /\ e.next = Len(content.v) + 1
         THEN [exc |-> "", root |-> e.node]
         ELSE [exc |-> "XMLSyntaxError"]

\* the exceptions parse_inspire_xml catches around etree.fromstring
ParseCaught_OnlySyntax == {"XMLSyntaxError"}
ParseCaught == {"ValueError", "XMLSyntaxError"}

\* record.xpath("datafield[@tag='035']")
Datafields035(record) ==
    SelectSeq(record.children, LAMBDA c : c.name = "datafield" /\ c.attr = "035")

\* datafield.xpath("subfield[@code='9' and text()='...']") is not empty
HasSub9(df, val) ==
    \E i \in DOMAIN df.children :
        /\ df.children[i].name = "subfield"
        /\ df.children[i].attr = "9"
        /\ df.children[i].text = Some(val)

\* datafield.find("subfield[@code='a']"): index of the first match, 0 for None
FindSubA(df) ==
    LET hits == {i \in DOMAIN df.children :
                    df.children[i].name = "subfield" /\ df.children[i].attr = "a"}
    IN IF hits = {} THEN 0 ELSE CHOOSE i \in hits : \A j \in hits : i <= j

\* try: x = datafield.find("subfield[@code='a']").text / except AttributeError: pass
AssignId_FirstWins(old, df) ==
    IF old.some \/ FindSubA(df) = 0 THEN old ELSE df.children[FindSubA(df)].text
AssignId(old, df) ==
    IF FindSubA(df) = 0 THEN old ELSE df.children[FindSubA(df)].text

\* the loop over the 035 datafields of one record
RECURSIVE ScanDatafields(_, _, _, _)
ScanDatafields(dfs, i, iid, cid) ==
    IF i > Len(dfs) THEN [inspire_id |-> iid, cern_id |-> cid]
    ELSE IF HasSub9(dfs[i], "INSPIRE")
         THEN ScanDatafields(dfs, i + 1, AssignId(iid, dfs[i]), cid)
    ELSE IF HasSub9(dfs[i], "CERN")
         THEN ScanDatafields(dfs, i + 1, iid, AssignId(cid, dfs[i]))
    ELSE ScanDatafields(dfs, i + 1, iid, cid)

\* if inspire_id and cern_id:
Qualifies_Either(iid, cid) == Truthy(iid) \/ Truthy(cid)
Qualifies(iid, cid) == Truthy(iid) /\ Truthy(cid)

(***************************************************************************)
(* The CDS record store and get_ccid                                       *)
(***************************************************************************)
INSPIRE_PREFIX == "AUTHOR|(INSPIRE)"
CCID_PREFIX == "AUTHOR|(SzGeCERN)"

\* perform_request_search(cc="CERN People")
get_record_ids == [i \in DOMAIN store |-> store[i].id]

\* get_fieldvalues(record_id, "035__a")
get_fieldvalues(record_id) ==
    LET hits == {i \in DOMAIN store : store[i].id = record_id}
    IN IF hits = {} THEN <<>> ELSE store[CHOOSE i \in hits : TRUE].values

RECURSIVE ScanControlNumbers(_, _, _)

\* 'break' at a control number that starts with "AUTHOR|(INSPIRE)"
OnInspireMarker_Continue(values, i, cid) == ScanControlNumbers(values, i + 1, cid)
OnInspireMarker(values, i, cid) == cid

\* the loop of get_ccid over the control numbers, cid the value of cern_id so far
ScanControlNumbers(values, i, cid) ==
    IF i > Len(values) THEN cid
    ELSE IF StartsWith(values[i], INSPIRE_PREFIX)
         THEN OnInspireMarker(values, i, cid)
    ELSE IF StartsWith(values[i], CCID_PREFIX)
         THEN ScanControlNumbers(values, i + 1, Some(AfterPrefix(values[i], CCID_PREFIX)))
    ELSE ScanControlNumbers(values, i + 1, cid)

get_ccid(record_id) == ScanControlNumbers(get_fieldvalues(record_id), 1, None)

(***************************************************************************)
(* synchronize: the update record and the dictionary lookup                *)
(***************************************************************************)
\* record.format(record_id, inspire_id): the literal pieces and the two arguments
RecordFormat(record_id, iid) ==
    <<"<record><controlfield tag=\"001\">", record_id,
      "</controlfield><datafield tag=\"035\" ind1=\" \" ind2=\" \"><subfield code=\"a\">AUTHOR|(INSPIRE)",
      iid, "</subfield></datafield></record>">>

\* "CERN-{0}".format(cern_id)
LookupKey(cid) == "CERN-" \o Format(cid)

\* output = "" at the start of synchronize
SyncStartOutput == <<>>

\* the file left by open(dest_xml, "w") and f.write(output) when all is written
WrittenFile_Append(old, out) == Some((IF old.some THEN old.v ELSE <<>>) \o out)
WrittenFile(old, out) == Some(out)

\* where synchronize goes after the 'with open(...)' block
AfterWrite_Always(outcome) == "submit"
AfterWrite(outcome) == IF outcome = "ok" THEN "submit" ELSE "done"

\* 'if authority_ids:' in the tasklet
MappingUsable_NotNone(a) == a.some
MappingUsable(a) == a.some /\ DOMAIN a.v # {}

\* 'if record_ids:' in the tasklet
IdsUsable(ids) == ids # <<>>

(***************************************************************************)
(* Files                                                                   *)
(***************************************************************************)
NoFile == [exists |-> FALSE, gz |-> FALSE, complete |-> FALSE, data |-> <<>>]
Downloaded(r) == [exists |-> TRUE, gz |-> r.gz, complete |-> TRUE, data |-> r.data]
Partial(r) == [exists |-> TRUE, gz |-> r.gz, complete |-> FALSE, data |-> <<>>]

\* where get_inspire_dump goes when urllib.urlretrieve raised IOError
AfterCopyError == "parse"

\* where get_inspire_dump goes when gzip raised IOError
AfterUnzipError == "remove"

(***************************************************************************)
(* get_inspire_dump                                                        *)
(***************************************************************************)
Say(kind) == Append(log, kind)

\* urllib.urlretrieve(src, dest_gz_tmp): the copy succeeds, or IOError is raised
\* before the local file is opened, or after part of it has been written
Urlretrieve ==
    /\ pc = "urlretrieve"
    /\ \E outcome \in {"ok", "error_before_open", "error_after_open"} :
          IF outcome = "ok"
          THEN /\ tmpFile' = Downloaded(remote)
               /\ pc' = "gunzip"
               /\ log' = log
          ELSE /\ tmpFile' = IF outcome = "error_after_open" THEN Partial(remote) ELSE tmpFile
               /\ pc' = AfterCopyError
               /\ log' = Say("copy_failed")
    /\ UNCHANGED <<run, remote, store, destFile, removeTried, removeFailed, xml_content,
                   root, recIdx, inspire_id, dump_cern_id, authority_ids, record_ids,
                   idx, cern_id, output, submitted, queries, history>>

\* gzip.open(dest_gz_tmp, "rb"); f.read(); f.close()
Gunzip ==
    /\ pc = "gunzip"
    /\ IF tmpFile.exists /\ tmpFile.complete /\ tmpFile.gz
       THEN /\ xml_content' = Some(tmpFile.data)
            /\ pc' = "remove"
            /\ log' = log
       ELSE /\ xml_content' = xml_content
            /\ pc' = AfterUnzipError
            /\ log' = Say("unzip_failed")
    /\ UNCHANGED <<run, remote, store, tmpFile, destFile, removeTried, removeFailed,
                   root, recIdx, inspire_id, dump_cern_id, authority_ids, record_ids,
                   idx, cern_id, output, submitted, queries, history>>

\* os.remove(dest_gz_tmp), then return xml_content
Remove ==
    /\ pc = "remove"
    /\ removeTried' = TRUE
    /\ \E ok \in BOOLEAN :
          IF ok /\ tmpFile.exists
          THEN /\ tmpFile' = NoFile
               /\ removeFailed' = removeFailed
               /\ log' = log
          ELSE /\ tmpFile' = tmpFile
               /\ removeFailed' = TRUE
               /\ log' = Say("remove_failed")
    /\ pc' = "parse"
    /\ UNCHANGED <<run, remote, store, destFile, xml_content, root, recIdx, inspire_id,
                   dump_cern_id, authority_ids, record_ids, idx, cern_id, output,
                   submitted, queries, history>>

(***************************************************************************)
(* parse_inspire_xml                                                       *)
(***************************************************************************)
ParseStart ==
    /\ pc = "parse"
    /\ LET r == fromstring(xml_content) IN
       IF r.exc = ""
       THEN /\ root' = Some(r.root)
            /\ authority_ids' = Some(EmptyDict)
            /\ recIdx' = 1
            /\ pc' = "parse_loop"
            /\ log' = log
       ELSE IF r.exc \in ParseCaught
       THEN /\ authority_ids' = None
            /\ pc' = "parsed"
            /\ log' = Say("parse_failed")
            /\ UNCHANGED <<root, recIdx>>
       ELSE /\ pc' = "raised"
            /\ UNCHANGED <<root, recIdx, authority_ids, log>>
    /\ UNCHANGED <<run, remote, store, tmpFile, destFile, removeTried, removeFailed,
                   xml_content, inspire_id, dump_cern_id, record_ids, idx, cern_id,
                   output, submitted, queries, history>>

\* one iteration of 'for record in root'
ParseRecord ==
    /\ pc = "parse_loop"
    /\ recIdx <= Len(root.v.children)
    /\ LET ids == ScanDatafields(Datafields035(root.v.children[recIdx]), 1, None, None) IN
       /\ inspire_id' = ids.inspire_id
       /\ dump_cern_id' = ids.cern_id
       /\ authority_ids' =
             IF Qualifies(ids.inspire_id, ids.cern_id)
             THEN Some(DictSet(authority_ids.v, ids.cern_id.v, ids.inspire_id.v))
             ELSE authority_ids
    /\ recIdx' = recIdx + 1
    /\ UNCHANGED <<pc, run, remote, store, tmpFile, destFile, removeTried, removeFailed,
                   xml_content, root, record_ids, idx, cern_id, output, submitted,
                   queries, log, history>>

\* return authority_ids
ParseReturn ==
    /\ pc = "parse_loop"
    /\ recIdx > Len(root.v.children)
    /\ pc' = "parsed"
    /\ UNCHANGED <<run, remote, store, tmpFile, destFile, removeTried, removeFailed,
                   xml_content, root, recIdx, inspire_id, dump_cern_id, authority_ids,
                   record_ids, idx, cern_id, output, submitted, queries, log, history>>

(***************************************************************************)
(* bst_inspire_authority_ids_synchronizer and synchronize                  *)
(***************************************************************************)
\* 'if authority_ids:' ... 'if record_ids:' ... the call of synchronize
AfterParse ==
    /\ pc = "parsed"
    /\ IF MappingUsable(authority_ids)
       THEN /\ record_ids' = get_record_ids
            /\ queries' = queries + 1
            /\ log' = Say("requested")
            /\ IF IdsUsable(get_record_ids)
               THEN /\ output' = SyncStartOutput
                    /\ idx' = 1
                    /\ pc' = "sync_loop"
               ELSE /\ pc' = "done"
                    /\ UNCHANGED <<output, idx>>
       ELSE /\ pc' = "done"
            /\ UNCHANGED <<record_ids, queries, log, output, idx>>
    /\ UNCHANGED <<run, remote, store, tmpFile, destFile, removeTried, removeFailed,
                   xml_content, root, recIdx, inspire_id, dump_cern_id, authority_ids,
                   cern_id, submitted, history>>

\* one iteration of 'for record_id in record_ids'
SyncStep ==
    /\ pc = "sync_loop"
    /\ idx <= Len(record_ids)
    /\ LET record_id == record_ids[idx]
           cid == get_ccid(record_id)
       IN /\ cern_id' = cid
          /\ output' = IF LookupKey(cid) \in DOMAIN authority_ids.v
                       THEN output \o RecordFormat(record_id, authority_ids.v[LookupKey(cid)])
                       ELSE output
    /\ idx' = idx + 1
    /\ UNCHANGED <<pc, run, remote, store, tmpFile, destFile, removeTried, removeFailed,
                   xml_content, root, recIdx, inspire_id, dump_cern_id, authority_ids,
                   record_ids, submitted, queries, log, history>>

\* 'if output:' after the loop
SyncAfterLoop ==
    /\ pc = "sync_loop"
    /\ idx > Len(record_ids)
    /\ IF output # <<>>
       THEN pc' = "write" /\ log' = log
       ELSE pc' = "done" /\ log' = Say("no_updates")
    /\ UNCHANGED <<run, remote, store, tmpFile, destFile, removeTried, removeFailed,
                   xml_content, root, recIdx, inspire_id, dump_cern_id, authority_ids,
                   record_ids, idx, cern_id, output, submitted, queries, history>>

\* with open(dest_xml, "w") as f: f.write(output); EnvironmentError is raised by
\* open (the file is left as it was) or by write (the file holds less than output)
WriteDest ==
    /\ pc = "write"
    /\ \E outcome \in {"ok", "open_failed", "write_failed"} :
          /\ pc' = AfterWrite(outcome)
          /\ IF outcome = "ok"
             THEN destFile' = WrittenFile(destFile, output) /\ log' = Say("written")
             ELSE /\ log' = Say("write_failed")
                  /\ IF outcome = "open_failed"
                     THEN destFile' = destFile
                     ELSE \E n \in 0..(Len(output) - 1) :
                             destFile' = Some(SubSeq(output, 1, n))
    /\ UNCHANGED <<run, remote, store, tmpFile, removeTried, removeFailed, xml_content,
                   root, recIdx, inspire_id, dump_cern_id, authority_ids, record_ids,
                   idx, cern_id, output, submitted, queries, history>>

\* task_low_level_submission("bibupload", ..., "--append", dest_xml, ...)
Submit ==
    /\ pc = "submit"
    /\ submitted' = Append(submitted, [run |-> run, payload |-> destFile])
    /\ log' = Say("submitted")
    /\ pc' = "done"
    /\ UNCHANGED <<run, remote, store, tmpFile, destFile, removeTried, removeFailed,
                   xml_content, root, recIdx, inspire_id, dump_cern_id, authority_ids,
                   record_ids, idx, cern_id, output, queries, history>>

\* what one invocation of the tasklet read and produced
RunResult ==
    [content |-> xml_content, output |-> output, dest |-> destFile,
     payloads |-> SelectSeq(submitted, LAMBDA c : c.run = run)]

MaxRuns == 2

\* the scheduler invokes the tasklet again: the locals are fresh, the disk is not
NextRun ==
    /\ pc = "done"
    /\ run < MaxRuns
    /\ history' = Append(history, RunResult)
    /\ run' = run + 1
    /\ pc' = "urlretrieve"
    /\ xml_content' = None
    /\ removeTried' = FALSE
    /\ removeFailed' = FALSE
    /\ root' = None
    /\ recIdx' = 0
    /\ inspire_id' = None
    /\ dump_cern_id' = None
    /\ authority_ids' = None
    /\ record_ids' = <<>>
    /\ idx' = 0
    /\ cern_id' = None
    /\ output' = <<>>
    /\ log' = <<>>
    /\ queries' = 0
    /\ UNCHANGED <<remote, store, tmpFile, destFile, submitted>>

(***************************************************************************)
(* Inputs                                                                  *)
(***************************************************************************)
MaxFields == 3      \* 035 datafields of the dump record under test
MaxValues == 3      \* 035__a values of the CDS record under test
MaxRecordIds == 2   \* records of the "CERN People" collection

\* datafields of a dump record
DF_Inspire1 == Datafield("035", Subfield("9", "INSPIRE") \o Subfield("a", "INSPIRE-1"))
DF_Inspire2 == Datafield("035", Subfield("9", "INSPIRE") \o Subfield("a", "INSPIRE-2"))
DF_Cern1 == Datafield("035", Subfield("9", "CERN") \o Subfield("a", "CERN-1"))
DF_Cern2 == Datafield("035", Subfield("a", "CERN-2") \o Subfield("9", "CERN"))
DF_CernNone == Datafield("035", Subfield("9", "CERN") \o Subfield("a", "CERN-None"))
DF_InspireNoA == Datafield("035", Subfield("9", "INSPIRE"))
DF_CernNoA == Datafield("035", Subfield("9", "CERN"))
DF_InspireEmptyA == Datafield("035", Subfield("9", "INSPIRE") \o EmptySubfield("a"))
DF_Both == Datafield("035", Subfield("9", "CERN") \o Subfield("9", "INSPIRE")
                              \o Subfield("a", "INSPIRE-3"))
DF_OtherTag == Datafield("100", Subfield("9", "CERN") \o Subfield("a", "CERN-1"))

DumpFields == {DF_Inspire1, DF_Inspire2, DF_Cern1, DF_Cern2, DF_InspireNoA, DF_CernNoA,
               DF_InspireEmptyA, DF_Both, DF_OtherTag}

\* the token sequences of at most n datafields
RECURSIVE FieldLists(_)
FieldLists(n) ==
    IF n = 0 THEN {<<>>}
    ELSE LET shorter == FieldLists(n - 1)
         IN shorter \cup {fs \o f : fs \in shorter, f \in DumpFields}

\* the records that come before the record under test
EarlierRecords == {<<>>, Record(DF_Cern1 \o DF_Inspire2)}

WellFormedDumps ==
    {Collection(e \o Record(fs)) : e \in EarlierRecords, fs \in FieldLists(MaxFields)}
    \cup {Collection(<<>>)}
    \cup {Record(fs) : fs \in FieldLists(1)}

\* truncated markup, the empty string, text outside an element, a mismatched end
\* tag, content after the document element
MalformedDumps ==
    LET small == {Collection(e \o Record(fs)) : e \in EarlierRecords, fs \in FieldLists(1)}
    IN UNION {{SubSeq(d, 1, n) : n \in 0..(Len(d) - 1)} : d \in small}
       \cup {<<Text(">record<")>>,
             <<Open("record", ""), Close("collection")>>,
             Record(<<>>) \o Record(<<>>),
             <<Close("record"), Open("record", "")>>}

ParseInputs == {None} \cup {Some(d) : d \in WellFormedDumps \cup MalformedDumps}

\* 035__a values of a CDS record
CN_Inspire == INSPIRE_PREFIX \o "INSPIRE-1"
CN_Ccid1 == CCID_PREFIX \o "1"
CN_Ccid2 == CCID_PREFIX \o "2"
CN_CcidEmpty == CCID_PREFIX
CN_Other == "INSPIRE-1"

ControlNumbers == {CN_Inspire, CN_Ccid1, CN_Ccid2, CN_CcidEmpty, CN_Other}

RECURSIVE ValueLists(_)
ValueLists(n) ==
    IF n = 0 THEN {<<>>}
    ELSE LET shorter == ValueLists(n - 1)
         IN shorter \cup {Append(vs, c) : vs \in shorter, c \in ControlNumbers}

SomeValueLists ==
    {<<>>, <<CN_Ccid1>>, <<CN_Ccid1, CN_Inspire>>, <<CN_Inspire, CN_Ccid1>>, <<CN_Ccid2>>}

\* record stores of n records with the ids 1..n, in the order of the ids
RECURSIVE StoresOf(_, _)
StoresOf(n, lists) ==
    IF n = 0 THEN {<<>>}
    ELSE {Append(s, [id |-> n, values |-> vs]) : s \in StoresOf(n - 1, lists), vs \in lists}

\* the records of the collection: without identifiers, with a CCID only, and
\* with an INSPIRE id already
CollectionValueLists == {<<>>, <<CN_Ccid1>>, <<CN_Inspire, CN_Ccid1>>}

Stores == UNION {StoresOf(n, CollectionValueLists) : n \in 0..MaxRecordIds}

\* the last record is the record under test
SyncStores ==
    UNION {{Append(s, [id |-> n, values |-> vs]) :
               s \in StoresOf(n - 1, SomeValueLists), vs \in ValueLists(MaxValues)} :
           n \in 1..MaxRecordIds}

SyncDicts ==
    {[k \in {"CERN-1"} |-> "INSPIRE-1"],
     [k \in {"CERN-1", "CERN-2"} |-> IF k = "CERN-1" THEN "INSPIRE-1" ELSE "INSPIRE-2"],
     [k \in {"CERN-None", "CERN-"} |-> "INSPIRE-2"]}

NoRemote == [gz |-> FALSE, data |-> <<>>]

Remotes ==
    {NoRemote}
    \cup {[gz |-> TRUE, data |-> d] :
            d \in {<<>>,
                   Collection(<<>>),
                   Collection(Record(DF_Cern1 \o DF_Inspire1)),
                   Collection(Record(DF_Inspire2) \o Record(DF_Cern1 \o DF_Inspire1)
                              \o Record(DF_Inspire2 \o DF_Cern2)),
                   Collection(Record(DF_CernNone \o DF_Inspire2)),
                   SubSeq(Collection(Record(DF_Cern1 \o DF_Inspire1)), 1, 9)}}

(***************************************************************************)
(* Specifications                                                          *)
(***************************************************************************)
InitCommon ==
    /\ run = 1
    /\ tmpFile = NoFile
    /\ destFile = None
    /\ removeTried = FALSE
    /\ removeFailed = FALSE
    /\ root = None
    /\ recIdx = 0
    /\ inspire_id = None
    /\ dump_cern_id = None
    /\ cern_id = None
    /\ output = <<>>
    /\ submitted = <<>>
    /\ queries = 0
    /\ log = <<>>
    /\ history = <<>>

\* the tasklet is invoked
Init ==
    /\ InitCommon
    /\ pc = "urlretrieve"
    /\ remote \in Remotes
    /\ store \in Stores
    /\ xml_content = None
    /\ authority_ids = None
    /\ record_ids = <<>>
    /\ idx = 0

Next ==
    \/ Urlretrieve
    \/ Gunzip
    \/ Remove
    \/ ParseStart
    \/ ParseRecord
    \/ ParseReturn
    \/ AfterParse
    \/ SyncStep
    \/ SyncAfterLoop
    \/ WriteDest
    \/ Submit
    \/ NextRun

Spec == Init /\ [][Next]_vars

\* parse_inspire_xml is called with a content
InitParse ==
    /\ InitCommon
    /\ pc = "parse"
    /\ remote = NoRemote
    /\ store = <<>>
    /\ xml_content \in ParseInputs
    /\ authority_ids = None
    /\ record_ids = <<>>
    /\ idx = 0

NextParse == ParseStart \/ ParseRecord \/ ParseReturn

SpecParse == InitParse /\ [][NextParse]_vars

\* synchronize is called with record ids and a dictionary
InitSync ==
    /\ InitCommon
    /\ pc = "sync_loop"
    /\ remote = NoRemote
    /\ store \in SyncStores
    /\ xml_content = None
    /\ authority_ids \in {Some(d) : d \in SyncDicts}
    /\ record_ids = get_record_ids
    /\ idx = 1

NextSync == SyncStep \/ SyncAfterLoop \/ WriteDest \/ Submit

SpecSync == InitSync /\ [][NextSync]_vars

(***************************************************************************)
(* Properties                                                              *)
(***************************************************************************)
FetchPcs == {"urlretrieve", "gunzip", "remove"}
FetcherReturned == pc \notin FetchPcs
ParserReturned == pc \in {"parsed", "sync_loop", "write", "submit", "done"}

\* C1: once get_inspire_dump has returned, on whatever path, os.remove of the
\* transient path has been attempted, and unless that removal failed no file
\* is left at the transient path.
C1_RemovalOnEveryExit ==
    FetcherReturned =>
        /\ removeTried
        /\ ~removeFailed => ~tmpFile.exists

\* the 035__a values of the record that SyncStep has just handled
LastValues == get_fieldvalues(record_ids[idx - 1])
CcidApplied == pc = "sync_loop" /\ idx > 1

IsInspireValue(v) == StartsWith(v, INSPIRE_PREFIX)
IsCcidValue(v) == StartsWith(v, CCID_PREFIX)

\* C2: for a record whose values hold an internal-id marker value followed later
\* by an external-id marker value, get_ccid returns None.
C2_LaterInspireDiscardsKey ==
    CcidApplied =>
        ((\E i, j \in DOMAIN LastValues :
             i < j /\ IsCcidValue(LastValues[i]) /\ IsInspireValue(LastValues[j]))
         => cern_id = None)

InspireBeforeAnyCcid(values) ==
    \E j \in DOMAIN values :
        /\ IsInspireValue(values[j])
        /\ \A i \in 1..(j - 1) : ~IsCcidValue(values[i])

\* C8: for a record whose values hold an external-id marker value before any
\* internal-id marker value, get_ccid returns None, whatever follows that value.
C8_InspireFirstNoKey ==
    CcidApplied => (InspireBeforeAnyCcid(LastValues) => cern_id = None)

\* C8 witness: an external-id marker comes first, an internal-id marker follows it,
\* and no key was returned
C8_Witness ==
    /\ CcidApplied
    /\ Len(LastValues) >= 2
    /\ IsInspireValue(LastValues[1])
    /\ \E i \in 2..Len(LastValues) : IsCcidValue(LastValues[i])
    /\ cern_id = None

\* the updates in output: one update record per RecordFormat
NumUpdates == Len(output) \div Len(RecordFormat(0, ""))
UpdateRecordId(n) == output[(n - 1) * Len(RecordFormat(0, "")) + 2]
InSynchronize == pc \in {"sync_loop", "write", "submit"}

\* C3: the updates are at most as many as the candidates handled so far whose
\* key is present, every update carries a record id of the candidate list, and
\* (so) a candidate with an absent key produces no update, whatever the mapping holds.
C3_UpdatesOnlyForPresentKeys ==
    InSynchronize =>
        /\ NumUpdates <= Cardinality({i \in 1..(idx - 1) : get_ccid(record_ids[i]).some})
        /\ \A n \in 1..NumUpdates : \E i \in DOMAIN record_ids : record_ids[i] = UpdateRecordId(n)

OutputOfRun(r) == IF r = run THEN output ELSE history[r].output
SubmissionsOfRun(r) == {i \in DOMAIN submitted : submitted[i].run = r}

\* C4: task_low_level_submission is called at most once per run, and only when the
\* file at dest_xml holds the complete, non-empty output; after an empty output
\* or a failed write there is no call.
C4_SubmitOnlyAfterCompleteWrite ==
    /\ \A r \in 1..run : Cardinality(SubmissionsOfRun(r)) <= 1
    /\ \A i \in DOMAIN submitted :
          /\ OutputOfRun(submitted[i].run) # <<>>
          /\ submitted[i].payload = Some(OutputOfRun(submitted[i].run))
    /\ (\E i \in DOMAIN log : log[i] = "write_failed") => SubmissionsOfRun(run) = {}
    /\ (pc = "done" /\ output = <<>>) => SubmissionsOfRun(run) = {}

\* C4 witness: the first run submitted its payload, the second run's write failed
\* part way and the run ended without a second submission
C4_Witness ==
    /\ run = 2
    /\ pc = "done"
    /\ Len(submitted) = 1
    /\ \E i \in DOMAIN log : log[i] = "write_failed"
    /\ destFile.some
    /\ destFile.v # output

DestAtRunStart == IF run = 1 THEN None ELSE history[run - 1].dest
FetcherAbsent == FetcherReturned /\ xml_content = None
MappingAbsentOrEmpty ==
    ParserReturned /\ (authority_ids = None \/ authority_ids = Some(EmptyDict))
NoCandidates == queries > 0 /\ record_ids = <<>>

\* C5: when the fetcher returned None, or the parser returned None or an empty
\* mapping, or the record store returned no ids, the run raises nothing, writes
\* no payload file and submits nothing; and with a None or empty mapping the
\* record store is not queried.
C5_NothingToDoEndsQuietly ==
    /\ (FetcherAbsent \/ MappingAbsentOrEmpty \/ NoCandidates) =>
          /\ pc \in {"parse", "parsed", "done"}
          /\ destFile = DestAtRunStart
          /\ SubmissionsOfRun(run) = {}
    /\ (FetcherAbsent \/ MappingAbsentOrEmpty) => queries = 0

\* C5 witness: a second run that parsed an empty mapping out of a well-formed dump
\* and ended without querying the record store
C5_Witness ==
    /\ pc = "done"
    /\ xml_content.some
    /\ authority_ids = Some(EmptyDict)
    /\ queries = 0
    /\ store # <<>>

\* the 035 datafields of a record, by the 9 subfields they carry
InspireTagged(rec) ==
    {i \in DOMAIN Datafields035(rec) : HasSub9(Datafields035(rec)[i], "INSPIRE")}
CernTagged(rec) ==
    {i \in DOMAIN Datafields035(rec) : HasSub9(Datafields035(rec)[i], "CERN")}
HasA(rec) == {i \in DOMAIN Datafields035(rec) : FindSubA(Datafields035(rec)[i]) # 0}

\* the text of the first a subfield of a datafield, None without an a subfield
FieldId(df) == IF FindSubA(df) = 0 THEN None ELSE df.children[FindSubA(df)].text
LastOf(S) == CHOOSE x \in S : \A y \in S : y <= x
LastId(rec, S) == IF S = {} THEN None ELSE FieldId(Datafields035(rec)[LastOf(S)])

\* the identifiers a record yields: of the last field of the tag that has an a
\* subfield, a field tagged both INSPIRE and CERN counting as INSPIRE only
YieldedInspire(rec) == LastId(rec, InspireTagged(rec) \cap HasA(rec))
YieldedCern(rec) == LastId(rec, (CernTagged(rec) \ InspireTagged(rec)) \cap HasA(rec))
RecordQualifies(rec) == Truthy(YieldedInspire(rec)) /\ Truthy(YieldedCern(rec))

\* C6: parse_inspire_xml returns None, with one message and without raising, for
\* None, the empty string and markup that is not well-formed; for well-formed
\* markup with no qualifying record it returns the empty dictionary, not None.
C6_ParseAbsentOrEmpty ==
    /\ (xml_content = None \/ xml_content.v = <<>> \/ xml_content.v \in MalformedDumps) =>
          /\ pc # "raised"
          /\ pc # "parse_loop"
          /\ pc = "parsed" => (authority_ids = None /\ log = <<"parse_failed">>)
    /\ (xml_content.some /\ xml_content.v \in WellFormedDumps) =>
          /\ pc # "raised"
          /\ (pc = "parsed" /\ \A i \in DOMAIN root.v.children : ~RecordQualifies(root.v.children[i]))
                => (authority_ids = Some(EmptyDict) /\ authority_ids # None /\ log = <<>>)

\* C6 witness: markup cut off after the start of a datafield was parsed to None
C6_Witness ==
    /\ pc = "parsed"
    /\ xml_content.some
    /\ Len(xml_content.v) >= 3
    /\ xml_content.v \in MalformedDumps
    /\ authority_ids = None

\* the step of parse_inspire_xml that handles the record at recIdx
IsParseRecordStep == pc = "parse_loop" /\ recIdx' = recIdx + 1
ScannedRecord == root.v.children[recIdx - 1]
RecordScanned == pc \in {"parse_loop", "parsed"} /\ root.some /\ recIdx > 1

\* C7: a record that carries both a CERN-tagged and an INSPIRE-tagged field adds
\* exactly one entry, keyed by its CERN identifier with its INSPIRE identifier
\* as value; a record that carries only one of the two adds none.
C7_BothFieldsOneEntry ==
    [][IsParseRecordStep =>
          LET rec == root.v.children[recIdx]
              dfs == Datafields035(rec)
          IN /\ (InspireTagged(rec) # {} /\ CernTagged(rec) # {}) =>
                   \E c \in CernTagged(rec), e \in InspireTagged(rec) :
                       /\ FieldId(dfs[c]).some
                       /\ FieldId(dfs[e]).some
                       /\ authority_ids'.v =
                             DictSet(authority_ids.v, FieldId(dfs[c]).v, FieldId(dfs[e]).v)
             /\ ((InspireTagged(rec) = {}) # (CernTagged(rec) = {})) =>
                   authority_ids' = authority_ids]_vars

\* C7, amended: a record adds exactly one entry, keyed by the CERN identifier it
\* yields with the INSPIRE identifier it yields as value, when it yields both
\* (non-empty); every other record, one that carries only one of the two
\* included, adds none.
C7_BothIdsOneEntry ==
    [][IsParseRecordStep =>
          LET rec == root.v.children[recIdx]
          IN /\ RecordQualifies(rec) =>
                   authority_ids'.v =
                      DictSet(authority_ids.v, YieldedCern(rec).v, YieldedInspire(rec).v)
             /\ ~RecordQualifies(rec) => authority_ids' = authority_ids
             /\ ((InspireTagged(rec) = {}) # (CernTagged(rec) = {})) =>
                   authority_ids' = authority_ids]_vars

\* C7 witness: the second record of the dump carried both fields and its entry
\* replaced the one of the first record under the same key
C7_Witness ==
    /\ RecordScanned
    /\ recIdx = 3
    /\ InspireTagged(ScannedRecord) # {}
    /\ CernTagged(ScannedRecord) # {}
    /\ RecordQualifies(ScannedRecord)
    /\ DOMAIN authority_ids.v = {"CERN-1"}
    /\ authority_ids.v["CERN-1"] = "INSPIRE-1"

\* C10: with several fields of one tag, the identifier used for the tag is that
\* of the last such field in document order.
C10_LastFieldWins ==
    RecordScanned =>
        /\ Cardinality(InspireTagged(ScannedRecord)) >= 2 =>
              inspire_id = LastId(ScannedRecord, InspireTagged(ScannedRecord))
        /\ Cardinality(CernTagged(ScannedRecord)) >= 2 =>
              dump_cern_id = LastId(ScannedRecord, CernTagged(ScannedRecord))

\* C10, amended: with several fields of one tag, the identifier used for the tag
\* is that of the last such field in document order that has an a subfield,
\* where a field tagged both INSPIRE and CERN is an INSPIRE field only.
C10_LastFieldWithValueWins ==
    RecordScanned =>
        /\ Cardinality(InspireTagged(ScannedRecord)) >= 2 =>
              inspire_id = YieldedInspire(ScannedRecord)
        /\ Cardinality(CernTagged(ScannedRecord)) >= 2 =>
              dump_cern_id = YieldedCern(ScannedRecord)

\* C10 witness: two INSPIRE fields with different identifiers, the second one used
C10_Witness ==
    /\ RecordScanned
    /\ Cardinality(InspireTagged(ScannedRecord) \cap HasA(ScannedRecord)) >= 2
    /\ \E i \in InspireTagged(ScannedRecord) :
          FieldId(Datafields035(ScannedRecord)[i]) = Some("INSPIRE-1")
    /\ inspire_id = Some("INSPIRE-2")

\* C9: a run that read the same dump content as an earlier run (the record store
\* being the same) produced the same output, and where both submitted, the same
\* payload.
C9_SecondRunSameUpdates ==
    pc = "done" =>
        \A r \in DOMAIN history :
            (xml_content.some /\ history[r].content = xml_content) =>
                /\ history[r].output = output
                /\ (history[r].payloads # <<>> /\ RunResult.payloads # <<>>) =>
                      history[r].payloads[1].payload = RunResult.payloads[1].payload

\* C9 witness: both runs read the dump, produced updates and submitted them
C9_Witness ==
    /\ pc = "done"
    /\ run = 2
    /\ history[1].content = xml_content
    /\ output # <<>>
    /\ history[1].payloads # <<>>
    /\ RunResult.payloads # <<>>

====
